---- MODULE Spec2Model ----
(***************************************************************************)
(* Geometry core of cyber.space: quadratic Bezier tessellation             *)
(* (generateBezier), ear-clipping triangulation (triangulatePolygon) and   *)
(* the tessellate-then-triangulate pipeline of writePositionData; and the  *)
(* resource loader (addResource, updateResource, loadAllResources).        *)
(*                                                                         *)
(* Numbers.  Coordinates are exact rationals with one common denominator   *)
(* `den` per run: a Point object is [ref, x, y] and stands for             *)
(* (x / den, y / den).  A polygon handed in directly has den = 1; the      *)
(* polyline of generateBezier(curve, segments) has den = segments^2,       *)
(* because t = i / segments.  den = 0 is the 0 / 0 of segments = 0, i.e.   *)
(* NaN.  sign and crossProduct are homogeneous of degree 2, so their       *)
(* signs on the numerators are their signs on the rationals.               *)
(*                                                                         *)
(* Objects.  A JavaScript Point is an array, compared by `!==` as an       *)
(* object; `ref` is that identity.  Two slots of a list may hold the same  *)
(* object (same ref, hence same coordinates) or two objects with equal     *)
(* coordinates (different refs).                                           *)
(***************************************************************************)
EXTENDS Integers, Sequences, FiniteSets

VARIABLES
    mode,       \* what runs: "triangulate", "bezier", "pipeline", "loader"
    curve,      \* the BezierCurve argument: [p0, p1, p2], each <<x, y>>
    segments,   \* the segments argument of generateBezier
    den,        \* common denominator of the coordinates in points / polygon
    points,     \* generateBezier's result, then triangulatePolygon's argument
    polygon,    \* triangulatePolygon: the working copy
    triangles,  \* triangulatePolygon: the result being built
    i,          \* triangulatePolygon: the value of i when the for loop was last left
    skipped,    \* slots the identity filter of the last isEar call excluded
    positions,  \* writePositionData: the flattened coordinates
    thrown,     \* the exception raised, "none" when there is none
    pc,         \* position in the code
    curves,     \* writePositionData: the curves argument
    ci,         \* writePositionData: 1-based place of `curve` in curves
    starts,     \* positions.length / 2 at the start of each curve's iteration
    manager,    \* the loader's Manager: resources, loadedCount, totalCount
    runs        \* the calls of loadAllResources made so far

vars == <<mode, curve, segments, den, points, polygon, triangles, i, skipped,
          positions, thrown, pc, curves, ci, starts, manager, runs>>

\* ---------------------------------------------------------------- bounds
\* Longest polygon handed to triangulatePolygon whose vertices have pairwise
\* different coordinates.
MaxLen == 5
\* Longest list handed to triangulatePolygon in which coordinates may repeat.
MaxRepLen == 4
\* How many slots of such a list may re-use the object of an earlier slot.
MaxShared == 1
\* Largest segments argument.
MaxSegments == 4
\* How many calls of loadAllResources are made on one manager.
MaxRuns == 2
\* The number of curves engineRender builds and draws.
CurveCount == 2

\* Coordinates of the input points and of the control points.
Coords == {0, 1, 2}
Grid == Coords \X Coords

\* ------------------------------------------------------------ arithmetic
sign(p1, p2, p3) ==
    (p1.x - p3.x) * (p2.y - p3.y) - (p2.x - p3.x) * (p1.y - p3.y)

crossProduct(a, b, c) ==
    (b.x - a.x) * (c.y - a.y) - (b.y - a.y) * (c.x - a.x)

\* Mutant of isPointInTriangle: the negation of the result forgotten.
isPointInTriangleNoNot(p, a, b, c) ==
    LET d1 == sign(p, a, b)
        d2 == sign(p, b, c)
        d3 == sign(p, c, a)
        hasNeg == d1 < 0 \/ d2 < 0 \/ d3 < 0
        hasPos == d1 > 0 \/ d2 > 0 \/ d3 > 0
    IN  hasNeg /\ hasPos

isPointInTriangle(p, a, b, c) ==
    LET d1 == sign(p, a, b)
        d2 == sign(p, b, c)
        d3 == sign(p, c, a)
        hasNeg == d1 < 0 \/ d2 < 0 \/ d3 < 0
        hasPos == d1 > 0 \/ d2 > 0 \/ d3 > 0
    IN  ~(hasNeg /\ hasPos)

\* Mutant of notSame: the points compared by their coordinates.
notSameByValue(p, a, b, c) ==
    /\ ~(p.x = a.x /\ p.y = a.y)
    /\ ~(p.x = b.x /\ p.y = b.y)
    /\ ~(p.x = c.x /\ p.y = c.y)

\* `p !== a && p !== b && p !== c` on arrays compares objects.
notSame(p, a, b, c) ==
    p.ref # a.ref /\ p.ref # b.ref /\ p.ref # c.ref

\* The 0-based slots of pts that the filter of isEar excludes.
Excluded(a, b, c, pts) ==
    {j \in 0..(Len(pts) - 1) : ~notSame(pts[j + 1], a, b, c)}

\* Mutant of isEar: the orientation test with its sign turned round.
isEarClockwise(a, b, c, pts) ==
    /\ crossProduct(a, b, c) <= 0
    /\ ~\E j \in 1..Len(pts) :
            notSame(pts[j], a, b, c) /\ isPointInTriangle(pts[j], a, b, c)

isEar(a, b, c, pts) ==
    /\ crossProduct(a, b, c) >= 0
    /\ ~\E j \in 1..Len(pts) :
            notSame(pts[j], a, b, c) /\ isPointInTriangle(pts[j], a, b, c)

\* polygon[(i - 1 + polygon.length) % polygon.length], polygon[i],
\* polygon[(i + 1) % polygon.length], with 0-based k.
prevOf(pts, k) == pts[((k - 1 + Len(pts)) % Len(pts)) + 1]
currentOf(pts, k) == pts[k + 1]
nextOf(pts, k) == pts[((k + 1) % Len(pts)) + 1]

\* polygon.splice(k, 1), 0-based k.
splice(pts, k) ==
    [j \in 1..(Len(pts) - 1) |-> IF j <= k THEN pts[j] ELSE pts[j + 1]]

\* ------------------------------------------------------------ tessellation
\* Mutant of bezierCoord: the middle weight 2 (1-t) t written as 2 (1-t).
bezierCoordNoT(c0, c1, c2, k, s) ==
    (s - k) * (s - k) * c0 + 2 * (s - k) * s * c1 + k * k * c2

\* One coordinate of the sample i, as a numerator over s^2:
\* (1-t)(1-t) c0 + 2 (1-t) t c1 + t t c2 with t = k / s.
bezierCoord(c0, c1, c2, k, s) ==
    (s - k) * (s - k) * c0 + 2 * (s - k) * k * c1 + k * k * c2

\* Mutant of bezierIndices: the loop test written i < segments.
bezierIndicesShort(s) == {k \in 0..MaxSegments + 1 : k < s}

\* for (let i = 0; i <= segments; i++): the values of i.
bezierIndices(s) == {k \in 0..MaxSegments + 1 : k <= s}

\* The polyline; every sample is a fresh array (ref = its index).
generateBezier(c, s) ==
    [j \in 1..Cardinality(bezierIndices(s)) |->
        [ref |-> j,
         x |-> bezierCoord(c.p0[1], c.p1[1], c.p2[1], j - 1, s),
         y |-> bezierCoord(c.p0[2], c.p1[2], c.p2[2], j - 1, s)]]

\* ------------------------------------------------------------------ loader
\* A Manager is [resources, loadedCount, totalCount]; the Map `resources` is
\* the list of its values in insertion order, at most one per name.  A
\* Resource is [name, loaded, data]; data is "undefined" while the field is
\* absent and "fetched" when it holds the decoded body (url and type are
\* never written after the resource is made and are left out).
emptyManager == [resources |-> <<>>, loadedCount |-> 0, totalCount |-> 0]

\* manager.resources.has(name)
has(m, name) == \E j \in 1..Len(m.resources) : m.resources[j].name = name

\* The place of name in the Map, for a name it has.
slotOf(m, name) == CHOOSE j \in 1..Len(m.resources) : m.resources[j].name = name

\* resources.set(name, r): a new key is added last, a known key keeps its place.
set(resources, name, r) ==
    IF \E j \in 1..Len(resources) : resources[j].name = name
    THEN [j \in 1..Len(resources) |->
              IF resources[j].name = name THEN r ELSE resources[j]]
    ELSE Append(resources, r)

\* The object loadResource resolves to: a new Resource, not the manager's.
loadResource(name) == [name |-> name, loaded |-> TRUE, data |-> "fetched"]

addResource(m, name) ==
    IF ~has(m, name)
    THEN [m EXCEPT
            !.resources = set(@, name, [name |-> name, loaded |-> FALSE,
                                        data |-> "undefined"]),
            !.totalCount = @ + 1]
    ELSE m

\* Mutant of updateResource: the test `resource.loaded !== loaded` left out.
updateResourceNoTest(name, loaded, m) ==
    IF has(m, name)
    THEN [m EXCEPT
            !.resources[slotOf(m, name)].loaded = loaded,
            !.loadedCount = @ + (IF loaded THEN 1 ELSE 0 - 1)]
    ELSE m

updateResource(name, loaded, m) ==
    IF has(m, name)
    THEN IF m.resources[slotOf(m, name)].loaded # loaded
         THEN [m EXCEPT
                 !.resources[slotOf(m, name)].loaded = loaded,
                 !.loadedCount = @ + (IF loaded THEN 1 ELSE 0 - 1)]
         ELSE m
    ELSE m

\* Array.from(manager.resources.values()), as the names of the objects.
resourcesArray(m) == [j \in 1..Len(m.resources) |-> m.resources[j].name]

\* ------------------------------------------------------------------ inputs
NoCurve == [p0 |-> <<0, 0>>, p1 |-> <<0, 0>>, p2 |-> <<0, 0>>]

Curves == [p0 : Grid, p1 : Grid, p2 : Grid]

\* The shape of the curves engineRender and createContext build: p0 and p2 on
\* a horizontal chord, p1 off the chord, p0 p1 p2 a counter-clockwise turn.
EngineCurves ==
    {c \in Curves :
        /\ c.p0[2] = c.p2[2]
        /\ (c.p1[1] - c.p0[1]) * (c.p2[2] - c.p0[2])
               - (c.p1[2] - c.p0[2]) * (c.p2[1] - c.p0[1]) > 0}

\* The resource names of the pages: the two shaders and one more.
Names == {"frag", "vert", "logo"}

\* --------------------------------------------------------------------- init
\* Either a caller is about to build the Point[] it hands to
\* triangulatePolygon, or a curve and a segment count are given to
\* generateBezier ("bezier") or to the pipeline of writePositionData
\* ("pipeline", where the segment count stands for the 200 of the code).
InitTriangulate ==
    /\ mode = "triangulate"
    /\ curve = NoCurve
    /\ segments = 0
    /\ den = 1
    /\ pc = "input"
    /\ curves = <<>>
    /\ ci = 0

InitCurve ==
    /\ \/ mode = "bezier" /\ segments \in (0 - 1)..MaxSegments
       \/ mode = "pipeline" /\ segments \in 1..MaxSegments
    /\ curve \in Curves
    /\ den = segments * segments
    /\ pc = "bezier"
    /\ curves = IF mode = "pipeline" THEN <<curve>> ELSE <<>>
    /\ ci = Len(curves)

\* No call is in progress and no resource has been added.
InitRest ==
    /\ points = <<>>
    /\ polygon = <<>>
    /\ triangles = <<>>
    /\ i = 0
    /\ skipped = {}
    /\ positions = <<>>
    /\ thrown = "none"
    /\ starts = <<>>
    /\ manager = emptyManager
    /\ runs = <<>>

Init ==
    /\ InitTriangulate \/ InitCurve
    /\ InitRest

\* engineRender hands its curves to writePositionData.
InitEngine ==
    /\ mode = "pipeline"
    /\ segments \in 2..MaxSegments
    /\ den = segments * segments
    /\ \E n \in 1..CurveCount : curves \in [1..n -> EngineCurves]
    /\ curve = curves[1]
    /\ ci = 1
    /\ pc = "bezier"
    /\ InitRest

\* The page has made its manager.
InitLoader ==
    /\ mode = "loader"
    /\ curve = NoCurve
    /\ segments = 0
    /\ den = 1
    /\ curves = <<>>
    /\ ci = 0
    /\ pc = "idle"
    /\ InitRest

\* ------------------------------------------------------------------ actions
\* Whether two slots of pts have the same coordinates.
hasRepeat(pts) ==
    \E j, k \in 1..Len(pts) : j < k /\ pts[j].x = pts[k].x /\ pts[j].y = pts[k].y

\* The number of slots of pts that hold the object of an earlier slot.
sharedSlots(pts) == Len(pts) - Cardinality({pts[j].ref : j \in 1..Len(pts)})

\* The lists a caller builds: up to MaxLen points when no coordinates repeat,
\* up to MaxRepLen otherwise, with at most MaxShared re-used objects.
inBounds(pts) ==
    /\ Len(pts) <= MaxLen
    /\ hasRepeat(pts) => Len(pts) <= MaxRepLen
    /\ sharedSlots(pts) <= MaxShared

\* The caller appends a new Point array [x, y] to the list.
PushPoint ==
    /\ pc = "input"
    /\ \E p \in Grid :
        \E pts \in {Append(points, [ref |-> Len(points) + 1, x |-> p[1], y |-> p[2]])} :
            /\ inBounds(pts)
            /\ points' = pts
    /\ UNCHANGED <<mode, curve, segments, den, polygon, triangles, i, skipped,
                   positions, thrown, pc>>
    /\ UNCHANGED <<curves, ci, starts, manager, runs>>

\* The caller appends a Point array that is already in the list.
PushShared ==
    /\ pc = "input"
    /\ \E j \in 1..Len(points) :
        \E pts \in {Append(points, points[j])} :
            /\ inBounds(pts)
            /\ points' = pts
    /\ UNCHANGED <<mode, curve, segments, den, polygon, triangles, i, skipped,
                   positions, thrown, pc>>
    /\ UNCHANGED <<curves, ci, starts, manager, runs>>

\* generateBezier(curve, segments) runs and returns; in writePositionData it
\* is the first statement of the iteration for `curve`.
Tessellate ==
    /\ pc = "bezier"
    /\ points' = generateBezier(curve, segments)
    /\ pc' = IF mode = "pipeline" THEN "triangulate" ELSE "done"
    /\ starts' = IF mode = "pipeline"
                 THEN Append(starts, Len(positions) \div 2)
                 ELSE starts
    /\ UNCHANGED <<mode, curve, segments, den, polygon, triangles, i, skipped,
                   positions, thrown>>
    /\ UNCHANGED <<curves, ci, manager, runs>>

\* while (polygon.length > 3): where control goes for a working list pts.
whileTest(pts) == IF Len(pts) > 3 THEN "while" ELSE "push"

\* triangulatePolygon is entered: triangles = [], polygon = [...points].
Enter ==
    /\ pc \in {"input", "triangulate"}
    /\ triangles' = <<>>
    /\ polygon' = points
    /\ i' = 0
    /\ pc' = whileTest(points)
    /\ UNCHANGED <<mode, curve, segments, den, points, skipped, positions, thrown>>
    /\ UNCHANGED <<curves, ci, starts, manager, runs>>

\* for (let i = 0; i < polygon.length; i++) { ... if (isEar(...)) { ...; break; } }
\* started at index k: the value of i when the loop is left, which is the index
\* of the break, or polygon.length when no index passed the test.
RECURSIVE forLoop(_, _)
forLoop(pts, k) ==
    IF k >= Len(pts) THEN k
    ELSE IF isEar(prevOf(pts, k), currentOf(pts, k), nextOf(pts, k), pts) THEN k
         ELSE forLoop(pts, k + 1)

\* The index of the last isEar call of a for loop that was left with i = k.
lastCall(pts, k) == IF k < Len(pts) THEN k ELSE Len(pts) - 1

\* Mutant of Pass: the index is not set back, the scan goes on where the last
\* one stopped.
PassNoRestart ==
    /\ pc = "while"
    /\ \E k \in {forLoop(polygon, i)} :
       \E c \in {lastCall(polygon, k)} :
       \E prev \in {prevOf(polygon, c)} :
       \E current \in {currentOf(polygon, c)} :
       \E next \in {nextOf(polygon, c)} :
           /\ i' = k
           /\ skipped' = IF crossProduct(prev, current, next) >= 0
                         THEN Excluded(prev, current, next, polygon)
                         ELSE {}
           /\ IF k < Len(polygon)
              THEN /\ triangles' = Append(triangles, <<prev, current, next>>)
                   /\ polygon' = splice(polygon, k)
                   /\ pc' = whileTest(splice(polygon, k))
              ELSE UNCHANGED <<triangles, polygon, pc>>
    /\ UNCHANGED <<mode, curve, segments, den, points, positions, thrown>>
    /\ UNCHANGED <<curves, ci, starts, manager, runs>>

\* One iteration of the while loop: the for loop from index 0 to its break or
\* its end.  When no index passes the test nothing is pushed or spliced and
\* the while test is evaluated again on the same list.
Pass ==
    /\ pc = "while"
    /\ \E k \in {forLoop(polygon, 0)} :
       \E c \in {lastCall(polygon, k)} :
       \E prev \in {prevOf(polygon, c)} :
       \E current \in {currentOf(polygon, c)} :
       \E next \in {nextOf(polygon, c)} :
           /\ i' = k
           /\ skipped' = IF crossProduct(prev, current, next) >= 0
                         THEN Excluded(prev, current, next, polygon)
                         ELSE {}
           /\ IF k < Len(polygon)
              THEN /\ triangles' = Append(triangles, <<prev, current, next>>)
                   /\ polygon' = splice(polygon, k)
                   /\ pc' = whileTest(splice(polygon, k))
              ELSE UNCHANGED <<triangles, polygon, pc>>
    /\ UNCHANGED <<mode, curve, segments, den, points, positions, thrown>>
    /\ UNCHANGED <<curves, ci, starts, manager, runs>>

\* triangles.push(polygon); return triangles.
Return ==
    /\ pc = "push"
    /\ triangles' = Append(triangles, polygon)
    /\ pc' = IF mode = "pipeline" THEN "flatten" ELSE "done"
    /\ UNCHANGED <<mode, curve, segments, den, points, polygon, i, skipped,
                   positions, thrown>>
    /\ UNCHANGED <<curves, ci, starts, manager, runs>>

\* positions.push(point[0], point[1]) for every point of every triangle.
RECURSIVE flatten(_)
flatten(ts) ==
    IF ts = <<>> THEN <<>>
    ELSE LET t == Head(ts)
             xy == [k \in 1..(2 * Len(t)) |->
                        IF k % 2 = 1 THEN t[(k + 1) \div 2].x ELSE t[k \div 2].y]
         IN  xy \o flatten(Tail(ts))

\* Mutant of Flatten: only point[0] is pushed.
FlattenFirstCoordinate ==
    /\ pc = "flatten"
    /\ positions' = positions \o
                        [k \in 1..(Len(flatten(triangles)) \div 2) |->
                            flatten(triangles)[2 * k - 1]]
    /\ IF ci < Len(curves)
       THEN /\ curve' = curves[ci + 1]
            /\ ci' = ci + 1
            /\ pc' = "bezier"
       ELSE /\ pc' = "done"
            /\ UNCHANGED <<curve, ci>>
    /\ UNCHANGED <<mode, segments, den, points, polygon, triangles, i,
                   skipped, thrown>>
    /\ UNCHANGED <<curves, starts, manager, runs>>

\* The two inner loops of writePositionData for the current curve, then the
\* next curve of `for (const curve of curves)`, or the end of the loop.
Flatten ==
    /\ pc = "flatten"
    /\ positions' = positions \o flatten(triangles)
    /\ IF ci < Len(curves)
       THEN /\ curve' = curves[ci + 1]
            /\ ci' = ci + 1
            /\ pc' = "bezier"
       ELSE /\ pc' = "done"
            /\ UNCHANGED <<curve, ci>>
    /\ UNCHANGED <<mode, segments, den, points, polygon, triangles, i,
                   skipped, thrown>>
    /\ UNCHANGED <<curves, starts, manager, runs>>

Next ==
    \/ PushPoint
    \/ PushShared
    \/ Tessellate
    \/ Enter
    \/ Pass
    \/ Return
    \/ Flatten

Spec == Init /\ [][Next]_vars

\* writePositionData on the curves of engineRender.
NextEngine ==
    \/ Tessellate
    \/ Enter
    \/ Pass
    \/ Return
    \/ Flatten

SpecEngine == InitEngine /\ [][NextEngine]_vars

\* passEncoder.draw((200 - 1) * 3, 1, k * (200 - 1) * 3, 0): the vertex count
\* and the first vertex of the draw for curve k (0-based), the 200 being
\* `segments`.
drawCount == (segments - 1) * 3
drawFirst(k) == k * (segments - 1) * 3

\* ----------------------------------------------------------- loader steps
\* The geometry is idle while the loader runs.
geometry == <<mode, curve, segments, den, points, polygon, triangles, i, skipped,
              positions, thrown, pc, curves, ci, starts>>

\* A caller runs addResource(manager, type, name, url).
AddResource ==
    /\ mode = "loader"
    /\ \E name \in Names : manager' = addResource(manager, name)
    /\ UNCHANGED <<geometry, runs>>

\* A caller runs updateResource(name, loaded, manager).
UpdateResource ==
    /\ mode = "loader"
    /\ \E name \in Names, loaded \in BOOLEAN :
           manager' = updateResource(name, loaded, manager)
    /\ UNCHANGED <<geometry, runs>>

\* loadAllResources(manager, callback) is called: the values of the Map are
\* copied and the chain is built; with no resource the promise returned is
\* Promise.resolve().
LoadAllResources ==
    /\ mode = "loader"
    /\ Len(runs) < MaxRuns
    /\ runs' = Append(runs, [resourcesArray |-> resourcesArray(manager),
                             done |-> 0,
                             state |-> IF manager.resources = <<>>
                                       THEN "resolved" ELSE "pending"])
    /\ UNCHANGED <<geometry, manager>>

\* The loadResource of the next link of a chain is fulfilled: updateResource
\* runs with the name and the flag of the object it resolved to (the
\* callback of the pages only logs); after the last link the promise of
\* loadAllResources resolves.
Loaded ==
    /\ mode = "loader"
    /\ \E r \in 1..Len(runs) :
        /\ runs[r].state = "pending"
        /\ \E loadedResource \in {loadResource(runs[r].resourcesArray[runs[r].done + 1])} :
               manager' = updateResource(loadedResource.name, loadedResource.loaded,
                                         manager)
        /\ runs' = [runs EXCEPT
                       ![r].done = @ + 1,
                       ![r].state = IF runs[r].done + 1 = Len(runs[r].resourcesArray)
                                    THEN "resolved" ELSE "pending"]
    /\ UNCHANGED geometry

\* The fetch of the next link is rejected: the chain and the promise of
\* loadAllResources are rejected, the later links never run.
Rejected ==
    /\ mode = "loader"
    /\ \E r \in 1..Len(runs) :
        /\ runs[r].state = "pending"
        /\ runs' = [runs EXCEPT ![r].state = "rejected"]
    /\ UNCHANGED <<geometry, manager>>

NextLoader ==
    \/ AddResource
    \/ UpdateResource
    \/ LoadAllResources
    \/ Loaded
    \/ Rejected

SpecLoader == InitLoader /\ [][NextLoader]_vars

\* ------------------------------------------------- geometry of the claims
Abs(n) == IF n < 0 THEN 0 - n ELSE n
Sgn(n) == IF n < 0 THEN 0 - 1 ELSE IF n > 0 THEN 1 ELSE 0
Min(a, b) == IF a < b THEN a ELSE b
Max(a, b) == IF a < b THEN b ELSE a

\* Twice the signed area of the triangle a, b, c: positive when a, b, c turn
\* counter-clockwise.
Turn(a, b, c) == (b.x - a.x) * (c.y - a.y) - (b.y - a.y) * (c.x - a.x)

SamePlace(p, q) == p.x = q.x /\ p.y = q.y

\* p lies on the closed segment a b.
OnSegment(p, a, b) ==
    /\ Turn(a, b, p) = 0
    /\ Min(a.x, b.x) <= p.x /\ p.x <= Max(a.x, b.x)
    /\ Min(a.y, b.y) <= p.y /\ p.y <= Max(a.y, b.y)

\* The closed segments a b and c d have a common point.
Meet(a, b, c, d) ==
    \/ /\ Sgn(Turn(a, b, c)) # Sgn(Turn(a, b, d))
       /\ Sgn(Turn(c, d, a)) # Sgn(Turn(c, d, b))
    \/ OnSegment(c, a, b) \/ OnSegment(d, a, b)
    \/ OnSegment(a, c, d) \/ OnSegment(b, c, d)

\* Vertex j of the closed polygon pts, j counted cyclically from 1.
Vtx(pts, j) == pts[((j - 1) % Len(pts)) + 1]

\* pts is a simple polygon: at least 3 vertices at pairwise different places,
\* edges that follow each other meet in their common vertex only, and no two
\* other edges meet.
IsSimple(pts) ==
    LET n == Len(pts) IN
    /\ n >= 3
    /\ \A j, k \in 1..n : j < k => ~SamePlace(pts[j], pts[k])
    /\ \A j \in 1..n :
        /\ ~OnSegment(Vtx(pts, j), Vtx(pts, j + 1), Vtx(pts, j + 2))
        /\ ~OnSegment(Vtx(pts, j + 2), Vtx(pts, j), Vtx(pts, j + 1))
    /\ \A j, k \in 1..n :
        (j + 1 < k /\ ~(j = 1 /\ k = n)) =>
            ~Meet(pts[j], Vtx(pts, j + 1), pts[k], Vtx(pts, k + 1))

\* Twice the signed area of the polygon pts (shoelace sum).
RECURSIVE Shoelace(_, _)
Shoelace(pts, j) ==
    IF j > Len(pts) THEN 0
    ELSE pts[j].x * Vtx(pts, j + 1).y - Vtx(pts, j + 1).x * pts[j].y
         + Shoelace(pts, j + 1)

Area2(pts) == Shoelace(pts, 1)

IsCCW(pts) == Area2(pts) > 0

\* Twice the summed unsigned areas of the triangles of ts.
RECURSIVE SumArea2(_)
SumArea2(ts) ==
    IF ts = <<>> THEN 0
    ELSE (IF Len(Head(ts)) = 3
          THEN Abs(Turn(Head(ts)[1], Head(ts)[2], Head(ts)[3]))
          ELSE 0) + SumArea2(Tail(ts))

\* pts has a vertex at which the boundary turns clockwise.
HasReflex(pts) ==
    \E j \in 1..Len(pts) : Turn(Vtx(pts, j), Vtx(pts, j + 1), Vtx(pts, j + 2)) < 0

\* triangulatePolygon was called on points directly and has returned.
Returned == pc = "done" /\ mode = "triangulate"

\* A full pass of the for loop found no ear.
NoEarFound == pc = "while" /\ i = Len(polygon)

\* ----------------------------------------------------------------- claims
\* C1: on a simple, counter-clockwise polygon of n >= 3 vertices every pass of
\* the scan finds an ear, so triangulatePolygon returns, and what it returns
\* is n - 2 triangles of exactly 3 points each.
C1_TriangleCount ==
    (mode = "triangulate" /\ pc \in {"while", "done"}
        /\ IsCCW(points) /\ IsSimple(points)) =>
            /\ ~NoEarFound
            /\ pc = "done" =>
                /\ Len(triangles) = Len(points) - 2
                /\ \A t \in 1..Len(triangles) : Len(triangles[t]) = 3

C1_Witness ==
    /\ Returned
    /\ IsCCW(points) /\ IsSimple(points) /\ HasReflex(points)
    /\ Len(points) >= 5
    /\ Len(triangles) = Len(points) - 2

\* C2 (as amended): for a simple, counter-clockwise polygon the doubled
\* unsigned areas of the returned triangles sum to the doubled area of the
\* polygon.
C2_AreaConservedCCW ==
    (Returned /\ IsCCW(points) /\ IsSimple(points)) =>
        SumArea2(triangles) = Abs(Area2(points))

C2_Witness ==
    /\ Returned
    /\ IsCCW(points) /\ IsSimple(points) /\ HasReflex(points)
    /\ Len(points) >= 5
    /\ SumArea2(triangles) = Area2(points)

\* C2 as stated: the same for every simple polygon, whatever its winding.
C2_AreaConservedAnyWinding ==
    (Returned /\ IsSimple(points)) =>
        SumArea2(triangles) = Abs(Area2(points))

\* C3: when a full scan of a working list of more than 3 vertices finds no
\* ear, triangulatePolygon stops with a DegeneratePolygon or NoEarFound error.
C3_NoEarIsReported ==
    (NoEarFound /\ Len(polygon) > 3) =>
        thrown \in {"DegeneratePolygon", "NoEarFound"}

\* C4: triangulatePolygon on fewer than 3 points fails with InvalidArgument or
\* DegeneratePolygon and returns no triangle.
C4_TooFewPointsRejected ==
    (Returned /\ Len(points) < 3) =>
        /\ thrown \in {"InvalidArgument", "DegeneratePolygon"}
        /\ triangles = <<>>

\* generateBezier has returned its polyline into points.
Tessellated == mode \in {"bezier", "pipeline"} /\ pc # "bezier"

\* The coordinate num / den equals the number v.
RatEq(num, v) == den # 0 /\ num = v * den

\* The point p (numerators over den) is the control point q.
IsControlPoint(p, q) == RatEq(p.x, q[1]) /\ RatEq(p.y, q[2])

\* C5: for segments >= 1, generateBezier returns segments + 1 points.
C5_PointCount ==
    (Tessellated /\ segments >= 1) => Len(points) = segments + 1

C5_Witness ==
    /\ mode = "bezier" /\ pc = "done"
    /\ segments >= 3
    /\ Len(points) = segments + 1

\* C6: for segments >= 1, the first point of the polyline is p0 and the point
\* at index segments is p2, exactly.
C6_Endpoints ==
    (Tessellated /\ segments >= 1) =>
        /\ IsControlPoint(points[1], curve.p0)
        /\ IsControlPoint(points[segments + 1], curve.p2)

C6_Witness ==
    /\ mode = "bezier" /\ pc = "done"
    /\ segments >= 2
    /\ curve.p0 # curve.p1 /\ curve.p1 # curve.p2 /\ curve.p0 # curve.p2
    /\ IsControlPoint(points[1], curve.p0)
    /\ IsControlPoint(points[segments + 1], curve.p2)
    /\ ~IsControlPoint(points[2], curve.p0)

\* C7: generateBezier with segments < 1 is rejected with InvalidArgument and
\* produces no polyline.
C7_BadSegmentsRejected ==
    (mode = "bezier" /\ pc = "done" /\ segments < 1) =>
        /\ thrown = "InvalidArgument"
        /\ points = <<>>

\* The slots prev, current, next of the candidate at 0-based index c.
Slots3(pts, c) ==
    {(c - 1 + Len(pts)) % Len(pts), c, (c + 1) % Len(pts)}

\* Every slot of pts holds an object of its own.
OwnObjects(pts) ==
    \A j, k \in 1..Len(pts) : j # k => pts[j].ref # pts[k].ref

\* The candidate triangle at 0-based index c turns counter-clockwise or is flat,
\* which is when the emptiness test runs.
Convex(pts, c) ==
    Turn(Vtx(pts, c + Len(pts)), Vtx(pts, c + 1), Vtx(pts, c + 2)) >= 0

\* C8 (as amended): when the emptiness test of a candidate runs, the slots
\* prev, current and next are skipped, and when every slot of the working list
\* holds an object of its own they are the only ones skipped, equal
\* coordinates or not.
C8_SkippedSlotsOwnObjects ==
    [][(pc = "while" /\ Convex(polygon, lastCall(polygon, i'))) =>
            /\ Slots3(polygon, lastCall(polygon, i')) \subseteq skipped'
            /\ OwnObjects(polygon) =>
                    skipped' = Slots3(polygon, lastCall(polygon, i'))]_vars

\* A pass found no ear; at its last candidate the emptiness test ran on a list
\* of own objects and tested a slot whose coordinates are those of a skipped one.
C8_Witness ==
    /\ NoEarFound
    /\ OwnObjects(polygon)
    /\ Convex(polygon, Len(polygon) - 1)
    /\ skipped = Slots3(polygon, Len(polygon) - 1)
    /\ \E j \in (0..(Len(polygon) - 1)) \ skipped : \E k \in skipped :
            SamePlace(polygon[j + 1], polygon[k + 1])

\* C8 as stated: the skipped slots are exactly prev, current and next.
C8_SkippedSlotsExactly ==
    [][(pc = "while" /\ Convex(polygon, lastCall(polygon, i'))) =>
            skipped' = Slots3(polygon, lastCall(polygon, i'))]_vars

\* p lies in the closed triangle a, b, c: the three signs are not a mix of
\* strictly positive and strictly negative.
InClosedTriangle(p, a, b, c) ==
    LET s == {Sgn(Turn(b, p, a)), Sgn(Turn(c, p, b)), Sgn(Turn(a, p, c))}
    IN  ~(1 \in s /\ (0 - 1) \in s)

\* The candidate at 0-based index c of pts is an ear when the vertices in the
\* slots of `others` are the ones tested.
EarAmong(pts, c, others) ==
    /\ Convex(pts, c)
    /\ \A j \in others :
            ~InClosedTriangle(pts[j + 1], Vtx(pts, c + Len(pts)), Vtx(pts, c + 1),
                              Vtx(pts, c + 2))

\* The slots of pts that hold another object than prev, current and next of c.
OtherObjects(pts, c) ==
    {j \in 0..(Len(pts) - 1) :
        \A k \in Slots3(pts, c) : pts[j + 1].ref # pts[k + 1].ref}

\* The slots of pts other than prev, current and next of c.
OtherSlots(pts, c) == (0..(Len(pts) - 1)) \ Slots3(pts, c)

\* The triangle <<prev, current, next>> at 0-based index c.
Tri(pts, c) == <<Vtx(pts, c + Len(pts)), Vtx(pts, c + 1), Vtx(pts, c + 2)>>

\* pts without its slot c.
Without(pts, c) == SubSeq(pts, 1, c) \o SubSeq(pts, c + 2, Len(pts))

\* What one pass over a list of more than 3 vertices does, given the set E of
\* the indices that are ears: the lowest index of E is emitted and removed, and
\* nothing changes when E is empty.
PassTakesLowest(E) ==
    /\ Len(polygon) > 3
    /\ E = {} => triangles' = triangles /\ polygon' = polygon
    /\ E # {} =>
        \E m \in E :
            /\ \A k \in E : m <= k
            /\ triangles' = Append(triangles, Tri(polygon, m))
            /\ polygon' = Without(polygon, m)

\* The last triangle is the 3 remaining vertices, pushed without a test.
RestPushed ==
    /\ Len(points) >= 3 => Len(polygon) = 3
    /\ triangles' = Append(triangles, polygon)

\* C9 (as amended): each pass emits and removes the lowest index whose triangle
\* turns counter-clockwise or is flat and holds, boundary included, no vertex
\* that is another object than prev, current and next; the 3 vertices left at
\* the end are emitted untested.
C9_LowestEarOtherObjects ==
    [][/\ pc = "while" =>
            PassTakesLowest({c \in 0..(Len(polygon) - 1) :
                                EarAmong(polygon, c, OtherObjects(polygon, c))})
       /\ pc = "push" => RestPushed]_vars

\* Two passes have run on a list with a clockwise turn, the last of them
\* breaking at an index above 0, and the rest was pushed.
C9_Witness ==
    /\ Returned
    /\ Len(points) >= 5
    /\ HasReflex(points)
    /\ Len(triangles) = Len(points) - 2
    /\ i > 0

\* C9 as stated: the same with the vertices of the other slots tested.
C9_LowestEarOtherSlots ==
    [][/\ pc = "while" =>
            PassTakesLowest({c \in 0..(Len(polygon) - 1) :
                                EarAmong(polygon, c, OtherSlots(polygon, c))})
       /\ pc = "push" => RestPushed]_vars

\* The control points of c lie on one line (or coincide).
Degenerate(c) ==
    (c.p1[1] - c.p0[1]) * (c.p2[2] - c.p0[2])
        - (c.p1[2] - c.p0[2]) * (c.p2[1] - c.p0[1]) = 0

\* C10: for a degenerate curve and segments >= 3 the pipeline completes: as
\* long as it has neither finished nor thrown, a step that changes something
\* is possible.
C10_DegenerateCompletes ==
    (mode = "pipeline" /\ segments >= 3 /\ Degenerate(curve)) =>
        \/ pc = "done"
        \/ thrown # "none"
        \/ ENABLED <<Next>>_vars

\* ------------------------------------------------------------ draw ranges
\* The vertex at which the data of curve k (1-based) ends in positions.
endOf(k) == IF k < Len(starts) THEN starts[k + 1] ELSE Len(positions) \div 2

\* C11: for curves of the engine's shape, tessellated with `segments`
\* segments, writePositionData appends (segments - 1) * 3 vertices per curve,
\* so the vertices of curve k are exactly the range engineRender draws for
\* it: they start at drawFirst and there are drawCount of them.
C11_DrawRangeIsCurve ==
    (mode = "pipeline" /\ pc = "done") =>
        /\ Len(starts) = Len(curves)
        /\ Len(positions) % 2 = 0
        /\ \A k \in 1..Len(curves) :
              /\ starts[k] = drawFirst(k - 1)
              /\ endOf(k) - starts[k] = drawCount
              /\ endOf(k) = drawFirst(k)

\* Two different curves have been written, each with the most segments.
C11_Witness ==
    /\ mode = "pipeline"
    /\ pc = "done"
    /\ Len(curves) = CurveCount
    /\ curves[1] # curves[2]
    /\ segments = MaxSegments
    /\ Len(starts) = CurveCount
    /\ starts[2] = drawFirst(1)
    /\ Len(positions) = 2 * CurveCount * drawCount

\* ------------------------------------------------------- loader properties
\* The manager's entry for a name it tracks.
entry(name) == manager.resources[slotOf(manager, name)]

\* C12: once a loadAllResources promise has resolved, every resource that
\* was tracked when it was called is loaded in the manager and the manager's
\* entry holds its data.
C12_ResolvedHoldsData ==
    \A r \in 1..Len(runs) :
        runs[r].state = "resolved" =>
            \A j \in 1..Len(runs[r].resourcesArray) :
                /\ has(manager, runs[r].resourcesArray[j])
                /\ entry(runs[r].resourcesArray[j]).loaded
                /\ entry(runs[r].resourcesArray[j]).data # "undefined"

\* The names the manager tracks, and those of them whose flag is set.
tracked == {manager.resources[j].name : j \in 1..Len(manager.resources)}
trackedLoaded == {name \in tracked : entry(name).loaded}

\* C13: whatever addResource, updateResource and loadAllResources steps have
\* run, totalCount is the number of tracked resources, loadedCount is the
\* number of tracked resources whose flag is set, and
\* 0 <= loadedCount <= totalCount.
C13_CountersMatch ==
    mode = "loader" =>
        /\ manager.totalCount = Cardinality(tracked)
        /\ manager.loadedCount = Cardinality(trackedLoaded)
        /\ 0 <= manager.loadedCount
        /\ manager.loadedCount <= manager.totalCount

\* Two runs of loadAllResources overlap, both part of the way through, with
\* some resources loaded and some not.
C13_Witness ==
    /\ mode = "loader"
    /\ Len(runs) = 2
    /\ \A r \in 1..2 : runs[r].state = "pending" /\ runs[r].done >= 1
    /\ runs[1].resourcesArray # runs[2].resourcesArray
    /\ manager.totalCount = Cardinality(Names)
    /\ manager.loadedCount >= 1
    /\ manager.loadedCount < manager.totalCount
====
